---- MODULE Spec2Model ----
(***************************************************************************)
(* Inventory store of the products app: the Product and                    *)
(* ProductInventoryLog tables, and the handlers that change a product's    *)
(* stored quantity: ProductViewSet.update_inventory (manual),               *)
(* ShopifyWebhookView.post (webhook), one iteration of the record loop of   *)
(* validate_and_update_inventory (reconcile) and the generic product       *)
(* update of the ModelViewSet; and the nightly task chain                  *)
(* import_products_from_csv, validate_and_update_inventory,                *)
(* generate_inventory_report.                                              *)
(***************************************************************************)
EXTENDS Integers, Sequences, FiniteSets, TLC

VARIABLES products, logs, clock, last, inflight, files, outbox, run

vars == <<products, logs, clock, last, inflight, files, outbox, run>>

\* The state of the nightly pipeline: the source files, the reports sent and
\* the position of the task chain.
pipeVars == <<files, outbox, run>>

(***************************************************************************)
(* Bounds of the model.                                                    *)
(***************************************************************************)
MaxQty == 1
MaxClock == 2

(***************************************************************************)
(* Python None / a present value.                                          *)
(***************************************************************************)
None == <<>>
Some(v) == <<v>>

(***************************************************************************)
(* Input domains.                                                          *)
(***************************************************************************)
Skus == {"A", "B"}
NoShopifyId == "null"
Quantities == (0 - 1)..MaxQty
PkInputs == 1..2
Faults == {"none", "product_write", "log_write"}

\* request.data.get('quantity'): absent, a value int() refuses (ValueError or
\* TypeError), or a value int() turns into the integer val.
RawQuantities ==
    {[kind |-> "missing", val |-> 0], [kind |-> "text", val |-> 0]}
    \cup [kind : {"number"}, val : Quantities]

\* request.data.get('notes', ''): absent or a caller's text.
RawNotes == {None, Some("recount")}

(***************************************************************************)
(* The store.  products: primary key -> row of the Product table (its       *)
(* domain is the set of stored pks); logs: the rows of ProductInventoryLog  *)
(* in insertion order (the last one is the newest).                        *)
(***************************************************************************)
NewProduct(sku, name, price, qty, description, now) ==
    [sku |-> sku, shopify_id |-> NoShopifyId, name |-> name, price |-> price,
     inventory_quantity |-> qty, description |-> description,
     last_inventory_update |-> now]

\* django's AutoField: the next primary key.
NextPk(prods) ==
    IF DOMAIN prods = {} THEN 1
    ELSE 1 + CHOOSE m \in DOMAIN prods : \A k \in DOMAIN prods : k <= m

\* PositiveIntegerFieldOK for a plain IntegerField: no constraint.
IntegerFieldOK(v) == TRUE

\* PositiveIntegerField: the column carries CHECK (col >= 0).
PositiveIntegerFieldOK(v) == v >= 0

\* Product.save writing the timestamp alone: the quantity in the store stays.
ProductSaveTimestampOnly(prods, pk, obj, now) ==
    [prods EXCEPT ![pk].last_inventory_update =
       IF prods[pk].inventory_quantity # obj.inventory_quantity
       THEN now ELSE prods[pk].last_inventory_update]

\* Product.save setting last_inventory_update on every save.
ProductSaveAlwaysStamp(prods, pk, obj, now) ==
    [prods EXCEPT ![pk] = [obj EXCEPT !.last_inventory_update = now]]

\* Product.save for a stored row: last_inventory_update is set to now when the
\* stored quantity differs from the instance's, then every field is written.
ProductSave(prods, pk, obj, now) ==
    LET original == prods[pk]
        stamped == IF original.inventory_quantity # obj.inventory_quantity
                   THEN [obj EXCEPT !.last_inventory_update = now]
                   ELSE obj
    IN [prods EXCEPT ![pk] = stamped]

\* A mutant of LogChange: the difference is taken the wrong way round.
LogChangeReversed(entry) ==
    IF entry.previous_quantity # entry.new_quantity
    THEN Some(entry.previous_quantity - entry.new_quantity)
    ELSE entry.change

\* ProductInventoryLog.save on a new instance: change is computed only when
\* the two quantities differ, otherwise it stays what the caller set (None when
\* the caller set nothing).
LogChange(entry) ==
    IF entry.previous_quantity # entry.new_quantity
    THEN Some(entry.new_quantity - entry.previous_quantity)
    ELSE entry.change

\* The INSERT succeeds when the two PositiveIntegerFields are >= 0 and the
\* NOT NULL column change has a value.
LogInsertOK(entry) ==
    /\ PositiveIntegerFieldOK(entry.previous_quantity)
    /\ PositiveIntegerFieldOK(entry.new_quantity)
    /\ LogChange(entry) # None

\* The row ProductInventoryLog.save writes.
LogRow(entry) == [entry EXCEPT !.change = LogChange(entry)[1]]

\* NewLog with the two quantities in each other's place.
NewLogSwapped(pk, prev, new, change_type, notes) ==
    [product |-> pk, previous_quantity |-> new, new_quantity |-> prev,
     change |-> None, change_type |-> change_type, notes |-> notes]

\* ProductInventoryLog(product=..., previous_quantity=..., new_quantity=...,
\* change_type=..., notes=...): change is not given, so it is None.
NewLog(pk, prev, new, change_type, notes) ==
    [product |-> pk, previous_quantity |-> prev, new_quantity |-> new,
     change |-> None, change_type |-> change_type, notes |-> notes]

\* A mutant of transaction_atomic: the writes done before the failure stay.
transaction_no_rollback(before, body) ==
    [ok |-> body.ok, products |-> body.products, logs |-> body.logs]

\* with transaction.atomic(): the body's writes are kept when it ends without
\* an exception and undone when it raises.
transaction_atomic(before, body) ==
    IF body.ok
    THEN [ok |-> TRUE, products |-> body.products, logs |-> body.logs]
    ELSE [ok |-> FALSE, products |-> before.products, logs |-> before.logs]

(***************************************************************************)
(* ProductViewSet.update_inventory: POST products/<pk>/update_inventory/.  *)
(***************************************************************************)
\* int(new_quantity): the integer, or None for ValueError / TypeError.
IntOf(raw) ==
    IF raw.kind = "number" THEN Some(raw.val) ELSE None

\* request.data.get('notes', '').
NotesOf(rawNotes) == IF rawNotes = None THEN "" ELSE rawNotes[1]

\* SaveProductThenLog without its log.save().
SaveProductOnly(prods, lgs, pk, obj, entry, fault, now) ==
    LET save_ok == /\ PositiveIntegerFieldOK(obj.inventory_quantity)
                   /\ fault # "product_write"
    IN [ok |-> save_ok,
        products |-> IF save_ok THEN ProductSave(prods, pk, obj, now) ELSE prods,
        logs |-> lgs]

\* SaveProductThenLog keeping one entry per product: the entry is written
\* over the product's entry when the ledger has one.
SaveProductThenLogOverwrite(prods, lgs, pk, obj, entry, fault, now) ==
    LET save_ok == /\ PositiveIntegerFieldOK(obj.inventory_quantity)
                   /\ fault # "product_write"
        p1 == IF save_ok THEN ProductSave(prods, pk, obj, now) ELSE prods
        log_ok == save_ok /\ LogInsertOK(entry) /\ fault # "log_write"
        own == {i \in 1..Len(lgs) : lgs[i].product = pk}
        l1 == IF ~log_ok THEN lgs
              ELSE IF own = {} THEN Append(lgs, LogRow(entry))
              ELSE [lgs EXCEPT ![CHOOSE i \in own : TRUE] = LogRow(entry)]
    IN [ok |-> log_ok, products |-> p1, logs |-> l1]

\* The body of the atomic block of update_inventory and of the webhook:
\* product.inventory_quantity = new_quantity; product.save(); log.save().
\* A write fails on its column constraints or when the store rejects it.
SaveProductThenLog(prods, lgs, pk, obj, entry, fault, now) ==
    LET save_ok == /\ PositiveIntegerFieldOK(obj.inventory_quantity)
                   /\ fault # "product_write"
        p1 == IF save_ok THEN ProductSave(prods, pk, obj, now) ELSE prods
        log_ok == save_ok /\ LogInsertOK(entry) /\ fault # "log_write"
        l1 == IF log_ok THEN Append(lgs, LogRow(entry)) ELSE lgs
    IN [ok |-> log_ok, products |-> p1, logs |-> l1]

\* A handler's outcome: the store it leaves and its HTTP status.
Outcome(prods, lgs, status, quantity) ==
    [products |-> prods, logs |-> lgs, status |-> status,
     quantity |-> quantity]

\* update_inventory with the negative-quantity test left out.
update_inventory_no_sign_check(prods, lgs, pk, raw, rawNotes, fault, now) ==
    IF raw.kind = "missing" THEN Outcome(prods, lgs, 400, None)
    ELSE IF IntOf(raw) = None THEN Outcome(prods, lgs, 400, None)
    ELSE IF pk \notin DOMAIN prods THEN Outcome(prods, lgs, 500, IntOf(raw))
    ELSE
      LET new_quantity == IntOf(raw)[1]
          product == prods[pk]
          log == NewLog(pk, product.inventory_quantity, new_quantity, "manual",
                        NotesOf(rawNotes))
          obj == [product EXCEPT !.inventory_quantity = new_quantity]
          tx == transaction_atomic(
                  [products |-> prods, logs |-> lgs],
                  SaveProductThenLog(prods, lgs, pk, obj, log, fault, now))
      IN Outcome(tx.products, tx.logs, IF tx.ok THEN 200 ELSE 500,
                 IntOf(raw))

\* The handler.  get_object() gives None for an unknown pk; the quantity is
\* checked first (400); then the log is built from the product as read
\* (an unknown pk raises AttributeError there: an unhandled error, 500); then
\* the atomic block runs, and an exception in it other than ValueError or
\* TypeError is unhandled (500).
update_inventory(prods, lgs, pk, raw, rawNotes, fault, now) ==
    IF raw.kind = "missing" THEN Outcome(prods, lgs, 400, None)
    ELSE IF IntOf(raw) = None THEN Outcome(prods, lgs, 400, None)
    ELSE IF IntOf(raw)[1] < 0 THEN Outcome(prods, lgs, 400, IntOf(raw))
    ELSE IF pk \notin DOMAIN prods THEN Outcome(prods, lgs, 500, IntOf(raw))
    ELSE
      LET new_quantity == IntOf(raw)[1]
          product == prods[pk]
          log == NewLog(pk, product.inventory_quantity, new_quantity, "manual",
                        NotesOf(rawNotes))
          obj == [product EXCEPT !.inventory_quantity = new_quantity]
          tx == transaction_atomic(
                  [products |-> prods, logs |-> lgs],
                  SaveProductThenLog(prods, lgs, pk, obj, log, fault, now))
      IN Outcome(tx.products, tx.logs, IF tx.ok THEN 200 ELSE 500,
                 IntOf(raw))

(***************************************************************************)
(* ShopifyWebhookView.post: POST of {id, sku, inventory_quantity}.         *)
(***************************************************************************)
\* The payloads: a stored id; an unknown id alone, with a stored sku or with a
\* sku stored only once a reconcile created it; no id but a sku; neither.
WebhookKeys ==
    {<<Some("s1"), None>>, <<Some("zz"), None>>, <<Some("zz"), Some("A")>>,
     <<Some("zz"), Some("B")>>, <<None, Some("A")>>, <<None, None>>}
WebhookPayloads ==
    {[id |-> k[1], sku |-> k[2], inventory_quantity |-> q] :
       k \in WebhookKeys, q \in RawQuantities}

\* WebhookValid asking for a quantity alone: no id is required and
\* validate() asks for nothing.
WebhookValidQuantityOnly(payload) ==
    IntOf(payload.inventory_quantity) # None

\* WebhookInventoryUpdateSerializer.is_valid(): id is a required non-blank
\* CharField, sku an optional non-blank CharField, inventory_quantity a
\* required IntegerField with no minimum; validate() then asks for id or sku.
WebhookValid(payload) ==
    /\ payload.id # None /\ payload.id # Some("")
    /\ payload.sku # Some("")
    /\ IntOf(payload.inventory_quantity) # None
    /\ ~(payload.id = None /\ payload.sku = None)

\* Product.objects.filter(shopify_id=...) / filter(sku=...): the matching pks.
ByShopifyId(prods, shopify_id) ==
    {pk \in DOMAIN prods : prods[pk].shopify_id = shopify_id}

BySku(prods, sku) == {pk \in DOMAIN prods : prods[pk].sku = sku}

\* WebhookTargets falling back to every stored product when nothing matches.
WebhookTargetsOrAny(prods, payload) ==
    LET by_id == IF payload.id # None
                 THEN ByShopifyId(prods, payload.id[1]) ELSE {}
        by_sku == IF payload.sku # None
                  THEN BySku(prods, payload.sku[1]) ELSE {}
    IN IF by_id # {} THEN by_id
       ELSE IF by_sku # {} THEN by_sku ELSE DOMAIN prods

\* The products the lookup of post() can return: .first() of the match by
\* shopify_id, else .first() of the match by sku; {} when there is none.
WebhookTargets(prods, payload) ==
    LET by_id == IF payload.id # None
                 THEN ByShopifyId(prods, payload.id[1]) ELSE {}
        by_sku == IF payload.sku # None
                  THEN BySku(prods, payload.sku[1]) ELSE {}
    IN IF by_id # {} THEN by_id ELSE by_sku

\* The note of a webhook entry (the source appends the time of the call).
WebhookNote == "Shopify webhook update"

\* The handler.  target is the product the lookup returned (0: none).  An
\* invalid payload is 400, no product 404; any exception of the lookup, of the
\* log's construction or of the atomic block is caught and answered 500.
ShopifyWebhookPost(prods, lgs, payload, target, fault, now) ==
    IF ~WebhookValid(payload) THEN Outcome(prods, lgs, 400, None)
    ELSE IF target \notin DOMAIN prods
    THEN Outcome(prods, lgs, 404, IntOf(payload.inventory_quantity))
    ELSE
      LET new_quantity == IntOf(payload.inventory_quantity)[1]
          product == prods[target]
          log == NewLog(target, product.inventory_quantity, new_quantity,
                        "webhook", WebhookNote)
          obj == [product EXCEPT !.inventory_quantity = new_quantity]
          tx == transaction_atomic(
                  [products |-> prods, logs |-> lgs],
                  SaveProductThenLog(prods, lgs, target, obj, log, fault, now))
      IN Outcome(tx.products, tx.logs, IF tx.ok THEN 200 ELSE 500,
                 Some(new_quantity))

(***************************************************************************)
(* validate_and_update_inventory: one iteration of its loop over the       *)
(* records of the batch.                                                   *)
(***************************************************************************)
Record(sku, name, price, qty) ==
    [sku |-> sku, name |-> name, price |-> price, inventory_quantity |-> qty,
     description |-> "d1"]

\* The records a batch can hold: complete ones, and ones with no sku, no
\* name or no price.
Records ==
    {Record(sku, "n1", Some(2), q) : sku \in Skus, q \in Quantities}
    \cup {Record("", "n1", Some(2), 1), Record("A", "", Some(2), 1),
          Record("A", "n1", None, 1)}

\* if not sku or not name or price is None: the record is skipped.
RecordInvalid(rec) == rec.sku = "" \/ rec.name = "" \/ rec.price = None

\* What one iteration leaves: the store and the counters' increments.
RecordOutcome(prods, lgs, created, updated, errors) ==
    [products |-> prods, logs |-> lgs, created |-> created,
     updated |-> updated, errors |-> errors]

\* The create branch: get_or_create inserts the product, created is
\* incremented, then the initial entry (0 -> quantity) is created.
ReconcileCreate(prods, lgs, rec, fault, now) ==
    LET pk == NextPk(prods)
        insert_ok == /\ PositiveIntegerFieldOK(rec.inventory_quantity)
                     /\ fault # "product_write"
        p1 == IF insert_ok
              THEN prods @@ (pk :> NewProduct(rec.sku, rec.name, rec.price[1],
                                              rec.inventory_quantity,
                                              rec.description, now))
              ELSE prods
        log == NewLog(pk, 0, rec.inventory_quantity, "import", "Initial import")
        log_ok == insert_ok /\ LogInsertOK(log) /\ fault # "log_write"
        l1 == IF log_ok THEN Append(lgs, LogRow(log)) ELSE lgs
        tx == transaction_atomic([products |-> prods, logs |-> lgs],
                                 [ok |-> log_ok, products |-> p1, logs |-> l1])
    IN RecordOutcome(tx.products, tx.logs, IF insert_ok THEN 1 ELSE 0, 0,
                     IF tx.ok THEN 0 ELSE 1)

\* ReconcileUpdate without its update() of name, price and description.
ReconcileUpdateQuantityOnly(prods, lgs, pk, product, rec, fault, now) ==
    LET changed == product.inventory_quantity # rec.inventory_quantity
        log == NewLog(pk, product.inventory_quantity, rec.inventory_quantity,
                      "import", "CSV import update")
        log_ok == ~changed \/ (LogInsertOK(log) /\ fault # "log_write")
        l1 == IF changed /\ log_ok THEN Append(lgs, LogRow(log)) ELSE lgs
        save_ok == /\ log_ok
                   /\ \/ ~changed
                      \/ /\ PositiveIntegerFieldOK(rec.inventory_quantity)
                         /\ fault # "product_write"
        obj == [product EXCEPT !.inventory_quantity = rec.inventory_quantity]
        p1 == IF changed /\ save_ok THEN ProductSave(prods, pk, obj, now)
              ELSE prods
        tx == transaction_atomic([products |-> prods, logs |-> lgs],
                                 [ok |-> save_ok, products |-> p1, logs |-> l1])
    IN RecordOutcome(tx.products, tx.logs, 0, IF tx.ok THEN 1 ELSE 0,
                     IF tx.ok THEN 0 ELSE 1)

\* The update branch, product being the instance get_or_create read: when
\* its quantity differs from the record's the entry is created and the
\* product saved; name, price and description are then written by update().
ReconcileUpdate(prods, lgs, pk, product, rec, fault, now) ==
    LET changed == product.inventory_quantity # rec.inventory_quantity
        log == NewLog(pk, product.inventory_quantity, rec.inventory_quantity,
                      "import", "CSV import update")
        log_ok == ~changed \/ (LogInsertOK(log) /\ fault # "log_write")
        l1 == IF changed /\ log_ok THEN Append(lgs, LogRow(log)) ELSE lgs
        save_ok == /\ log_ok
                   /\ \/ ~changed
                      \/ /\ PositiveIntegerFieldOK(rec.inventory_quantity)
                         /\ fault # "product_write"
        obj == [product EXCEPT !.inventory_quantity = rec.inventory_quantity]
        p1 == IF changed /\ save_ok THEN ProductSave(prods, pk, obj, now)
              ELSE prods
        update_ok == save_ok /\ fault # "product_write"
        p2 == IF update_ok
              THEN [p1 EXCEPT ![pk].name = rec.name, ![pk].price = rec.price[1],
                              ![pk].description = rec.description]
              ELSE p1
        tx == transaction_atomic([products |-> prods, logs |-> lgs],
                                 [ok |-> update_ok, products |-> p2, logs |-> l1])
    IN RecordOutcome(tx.products, tx.logs, 0, IF tx.ok THEN 1 ELSE 0,
                     IF tx.ok THEN 0 ELSE 1)

\* ProcessRecord with a get_or_create that never finds the sku and inserts.
ProcessRecordAlwaysCreate(prods, lgs, rec, fault, now) ==
    IF RecordInvalid(rec) THEN RecordOutcome(prods, lgs, 0, 0, 1)
    ELSE ReconcileCreate(prods, lgs, rec, fault, now)

\* The iteration: an invalid record is an error; otherwise the per-record
\* atomic block runs and an exception in it is recorded as an error.
ProcessRecord(prods, lgs, rec, fault, now) ==
    IF RecordInvalid(rec) THEN RecordOutcome(prods, lgs, 0, 0, 1)
    ELSE IF BySku(prods, rec.sku) = {}
    THEN ReconcileCreate(prods, lgs, rec, fault, now)
    ELSE LET pk == CHOOSE k \in BySku(prods, rec.sku) : TRUE
         IN ReconcileUpdate(prods, lgs, pk, prods[pk], rec, fault, now)

(***************************************************************************)
(* validate_and_update_inventory as a whole: the envelope check, the empty *)
(* batch, the loop over the records and the summary.                       *)
(***************************************************************************)
\* A stage's result (a Python dict): keys is the set of keys it carries, the
\* other fields their values (a default where the key is absent).  data is the
\* batch, errors the list of error strings (each kept as <<kind, sku>>),
\* report the report_data of the report stage.
Envelope(status, message, keys) ==
    [status |-> status, message |-> message, keys |-> keys, data |-> <<>>,
     imported |-> 0, created |-> 0, updated |-> 0, errors |-> <<>>,
     missing |-> {}, file_path |-> None, report |-> None]

\* The error string one iteration appends: the record was skipped as invalid
\* or its atomic block raised.
RecordError(rec) ==
    <<IF RecordInvalid(rec) THEN "Invalid data for product"
      ELSE "Error processing product", rec.sku>>

\* ProcessBatch leaving the loop at the first record that is an error.
RECURSIVE ProcessBatchAbort(_, _, _, _, _, _, _, _)
ProcessBatchAbort(prods, lgs, batch, i, created, updated, errors, now) ==
    IF i > Len(batch)
    THEN [products |-> prods, logs |-> lgs, created |-> created,
          updated |-> updated, errors |-> errors]
    ELSE LET out == ProcessRecord(prods, lgs, batch[i], "none", now)
         IN IF out.errors = 1
            THEN [products |-> prods, logs |-> lgs,
                  created |-> created + out.created, updated |-> updated,
                  errors |-> Append(errors, RecordError(batch[i]))]
            ELSE ProcessBatchAbort(out.products, out.logs, batch, i + 1,
                                   created + out.created,
                                   updated + out.updated, errors, now)

\* The loop from record i on: the store and the counters after the batch.
RECURSIVE ProcessBatch(_, _, _, _, _, _, _, _)
ProcessBatch(prods, lgs, batch, i, created, updated, errors, now) ==
    IF i > Len(batch)
    THEN [products |-> prods, logs |-> lgs, created |-> created,
          updated |-> updated, errors |-> errors]
    ELSE LET out == ProcessRecord(prods, lgs, batch[i], "none", now)
         IN ProcessBatch(out.products, out.logs, batch, i + 1,
                         created + out.created, updated + out.updated,
                         IF out.errors = 1
                         THEN Append(errors, RecordError(batch[i]))
                         ELSE errors,
                         now)

\* validate_and_update_inventory doing its work whatever the envelope's status.
validate_and_update_inventory_no_status_check(prods, lgs, import_result, now) ==
    LET out == ProcessBatch(prods, lgs, import_result.data, 1, 0, 0, <<>>, now)
    IN [products |-> out.products, logs |-> out.logs,
        envelope |->
          [Envelope("success", "Processed products",
                    {"status", "message", "created", "updated", "errors",
                     "file_path"})
             EXCEPT !.created = out.created, !.updated = out.updated,
                    !.errors = out.errors,
                    !.file_path = import_result.file_path]]

\* validate_and_update_inventory answering with status error when no record
\* of the batch was created or updated.
validate_and_update_inventory_error_if_none(prods, lgs, import_result, now) ==
    IF import_result.status # "success"
    THEN [products |-> prods, logs |-> lgs, envelope |-> import_result]
    ELSE
      LET out == ProcessBatch(prods, lgs, import_result.data, 1, 0, 0, <<>>,
                              now)
      IN [products |-> out.products, logs |-> out.logs,
          envelope |->
            [Envelope(IF out.created + out.updated = 0 THEN "error"
                      ELSE "success",
                      "Processed products",
                      {"status", "message", "created", "updated", "errors",
                       "file_path"})
               EXCEPT !.created = out.created, !.updated = out.updated,
                      !.errors = out.errors,
                      !.file_path = import_result.file_path]]

\* The task: an envelope that is not a success is returned as it came; an
\* empty batch gives a summary of zeros; otherwise the loop runs and the
\* counters are returned under status success.
validate_and_update_inventory(prods, lgs, import_result, now) ==
    IF import_result.status # "success"
    THEN [products |-> prods, logs |-> lgs, envelope |-> import_result]
    ELSE IF import_result.data = <<>>
    THEN [products |-> prods, logs |-> lgs,
          envelope |->
            Envelope("success", "No products to validate and update",
                     {"status", "message", "updated", "created", "errors"})]
    ELSE
      LET out == ProcessBatch(prods, lgs, import_result.data, 1, 0, 0, <<>>,
                              now)
      IN [products |-> out.products, logs |-> out.logs,
          envelope |->
            [Envelope("success", "Processed products",
                      {"status", "message", "created", "updated", "errors",
                       "file_path"})
               EXCEPT !.created = out.created, !.updated = out.updated,
                      !.errors = out.errors,
                      !.file_path = import_result.file_path]]

(***************************************************************************)
(* import_products_from_csv.  A file is absent (None) or has a content:    *)
(* whether pandas can read it, its header's columns and its rows.  A cell  *)
(* of a text column is None when empty and its text otherwise; a cell of   *)
(* price and inventory_quantity is a raw value as in RawQuantities (empty, *)
(* text that to_numeric coerces to NaN, or a number).                      *)
(***************************************************************************)
SourcePath == "products.csv"
MockPath == "products/data/mock_products.csv"
Paths == {SourcePath, MockPath}
FilePathInputs == {None, Some(SourcePath)}

AllColumns == {"sku", "name", "price", "inventory_quantity", "description"}
RequiredColumns == {"sku", "name", "price", "inventory_quantity"}

Number(v) == [kind |-> "number", val |-> v]
Row(sku, name, price, qty, description) ==
    [sku |-> sku, name |-> name, price |-> price, inventory_quantity |-> qty,
     description |-> description]
Content(readable, columns, rows) ==
    [readable |-> readable, columns |-> columns, rows |-> rows]

\* The sample file the task writes when the mock file does not exist (prices
\* in cents).
MockContent ==
    Content(TRUE, AllColumns,
      <<Row(Some("SKU001"), Some("Test Product 1"), Number(1999), Number(100),
            Some("This is a test product")),
        Row(Some("SKU002"), Some("Test Product 2"), Number(2999), Number(50),
            Some("Another test product")),
        Row(Some("SKU003"), Some("Test Product 3"), Number(3999), Number(25),
            Some("A third test product"))>>)

\* read_csv is called with its defaults: besides the empty cell, a cell whose
\* text is one of pandas' NA markers (these are three of them) is read as NaN.
NaValues == {"NA", "null", "None"}

\* The text cell is NaN in the DataFrame.
IsNa(cell) == cell = None \/ cell[1] \in NaValues

\* dropna(subset=[sku, name, price, inventory_quantity]) after to_numeric.
RowKept(row) ==
    /\ ~IsNa(row.sku) /\ ~IsNa(row.name)
    /\ row.price.kind = "number" /\ row.inventory_quantity.kind = "number"

\* to_dict('records') of a kept row; an empty description is ''.
RowRecord(row) ==
    [sku |-> row.sku[1], name |-> row.name[1], price |-> Some(row.price.val),
     inventory_quantity |-> row.inventory_quantity.val,
     description |-> IF row.description = None THEN "" ELSE row.description[1]]

RECURSIVE ValidData(_)
ValidData(rows) ==
    IF rows = <<>> THEN <<>>
    ELSE IF RowKept(Head(rows))
    THEN <<RowRecord(Head(rows))>> \o ValidData(Tail(rows))
    ELSE ValidData(Tail(rows))

\* ReadCsv without the test for the required columns: the first missing
\* column read raises KeyError.
ReadCsvNoColumnCheck(content, path) ==
    IF ~content.readable
    THEN [Envelope("error", "Error importing products",
                   {"status", "message", "imported", "errors"})
            EXCEPT !.errors = <<<<"exception", "">>>>]
    ELSE IF ~(AllColumns \subseteq content.columns)
    THEN [Envelope("error", "Error importing products",
                   {"status", "message", "imported", "errors"})
            EXCEPT !.errors = <<<<"exception", "KeyError">>>>]
    ELSE [Envelope("success", "Successfully read products from CSV",
                   {"status", "message", "data", "file_path"})
            EXCEPT !.data = ValidData(content.rows), !.file_path = Some(path)]

\* Reading the file at path: read_csv raising, a required column missing or
\* any other exception (the description column is read without a test for
\* its presence: KeyError) gives an error envelope; otherwise the kept rows.
ReadCsv(content, path) ==
    IF ~content.readable
    THEN [Envelope("error", "Error importing products",
                   {"status", "message", "imported", "errors"})
            EXCEPT !.errors = <<<<"exception", "">>>>]
    ELSE IF ~(RequiredColumns \subseteq content.columns)
    THEN [Envelope("error", "Missing required columns",
                   {"status", "message", "imported", "errors"})
            EXCEPT !.missing = RequiredColumns \ content.columns]
    ELSE IF "description" \notin content.columns
    THEN [Envelope("error", "Error importing products",
                   {"status", "message", "imported", "errors"})
            EXCEPT !.errors = <<<<"exception", "description">>>>]
    ELSE [Envelope("success", "Successfully read products from CSV",
                   {"status", "message", "data", "file_path"})
            EXCEPT !.data = ValidData(content.rows), !.file_path = Some(path)]

\* The task.  With no path, or a path that does not exist, the mock path is
\* taken, and when no file is there the task writes the sample file
\* (can_write: the directory and the file can be created; otherwise the
\* OSError leaves the task, raised).  A path that still does not exist is
\* 'CSV file not found'.
import_products_from_csv(fs, file_path, can_write) ==
    LET fallback == file_path = None \/ fs[file_path[1]] = None
        path == IF fallback THEN MockPath ELSE file_path[1]
        creates == fallback /\ fs[MockPath] = None
        fs1 == IF creates /\ can_write
               THEN [fs EXCEPT ![MockPath] = Some(MockContent)] ELSE fs
    IN IF creates /\ ~can_write
       THEN [files |-> fs, raised |-> TRUE,
             envelope |-> Envelope("raised", "OSError", {})]
       ELSE IF fs1[path] = None
       THEN [files |-> fs1, raised |-> FALSE,
             envelope |-> Envelope("error", "CSV file not found",
                                   {"status", "message", "imported", "errors"})]
       ELSE [files |-> fs1, raised |-> FALSE,
             envelope |-> ReadCsv(fs1[path][1], path)]

(***************************************************************************)
(* generate_inventory_report: an envelope that is not a success is         *)
(* returned as it came; otherwise the counts are read from the store, the  *)
(* report is sent by send_mail and a success envelope carries report_data; *)
(* an exception (send_mail raising) gives an error envelope.               *)
(***************************************************************************)
LowStockThreshold == 10

\* ReportData with the created and updated counts in each other's place.
ReportDataSwapped(prods, lgs, older, update_result) ==
    [total_products |-> Cardinality(DOMAIN prods),
     low_stock_products |->
       Cardinality({pk \in DOMAIN prods :
                      prods[pk].inventory_quantity < LowStockThreshold}),
     out_of_stock_products |->
       Cardinality({pk \in DOMAIN prods : prods[pk].inventory_quantity = 0}),
     recent_updates |-> Len(lgs) - older,
     file_processed |-> update_result.file_path,
     created |-> update_result.updated,
     updated |-> update_result.created,
     errors |-> update_result.errors]

\* report_data.  The ledger is in insertion order and its timestamps are the
\* times of insertion, so the entries with timestamp >= now - 1 day are its
\* last ones: all but the first older entries.
ReportData(prods, lgs, older, update_result) ==
    [total_products |-> Cardinality(DOMAIN prods),
     low_stock_products |->
       Cardinality({pk \in DOMAIN prods :
                      prods[pk].inventory_quantity < LowStockThreshold}),
     out_of_stock_products |->
       Cardinality({pk \in DOMAIN prods : prods[pk].inventory_quantity = 0}),
     recent_updates |-> Len(lgs) - older,
     file_processed |-> update_result.file_path,
     created |-> update_result.created,
     updated |-> update_result.updated,
     errors |-> update_result.errors]

\* generate_inventory_report with send_mail(fail_silently=True): a failed
\* dispatch is answered like a sent one.
generate_inventory_report_fail_silently(prods, lgs, sent, update_result, older, mail_ok) ==
    IF update_result.status # "success"
    THEN [outbox |-> sent, envelope |-> update_result]
    ELSE [outbox |-> IF mail_ok THEN sent + 1 ELSE sent,
          envelope |->
            [Envelope("success", "Report generated and sent",
                      {"status", "message", "report_data"})
               EXCEPT !.report =
                 Some(ReportData(prods, lgs, older, update_result))]]

generate_inventory_report(prods, lgs, sent, update_result, older, mail_ok) ==
    IF update_result.status # "success"
    THEN [outbox |-> sent, envelope |-> update_result]
    ELSE IF mail_ok
    THEN [outbox |-> sent + 1,
          envelope |->
            [Envelope("success", "Report generated and sent",
                      {"status", "message", "report_data"})
               EXCEPT !.report =
                 Some(ReportData(prods, lgs, older, update_result))]]
    ELSE [outbox |-> sent,
          envelope |-> Envelope("error", "Error generating inventory report",
                                {"status", "message", "error"})]

(***************************************************************************)
(* The generic update of the ModelViewSet: PATCH products/<pk>/ with       *)
(* {inventory_quantity}.  ProductSerializer leaves inventory_quantity       *)
(* writable (a PositiveIntegerField: a negative value is refused, 400);    *)
(* the instance is saved by Product.save and no log entry is written.  For *)
(* an unknown pk get_object() gives None and the serializer's save() tries *)
(* to create a product from the payload alone, which the store refuses.    *)
(***************************************************************************)
partial_update(prods, lgs, pk, quantity, fault, now) ==
    IF ~PositiveIntegerFieldOK(quantity)
    THEN Outcome(prods, lgs, 400, Some(quantity))
    ELSE IF pk \notin DOMAIN prods \/ fault = "product_write"
    THEN Outcome(prods, lgs, 500, Some(quantity))
    ELSE Outcome(ProductSave(prods, pk,
                             [prods[pk] EXCEPT !.inventory_quantity = quantity],
                             now),
                 lgs, 200, Some(quantity))

(***************************************************************************)
(* The state machine.  last is the latest call and its answer: the handler, *)
(* the product it addressed (0: none), the quantity it parsed, its note,   *)
(* the injected store fault, the HTTP status (0 for the reconcile loop)    *)
(* and the increments of the reconcile counters.  clock is the time of the *)
(* latest write; timezone.now() in a handler is clock + 1.  For a webhook  *)
(* call key is the payload's <<id, sku, inventory_quantity>>; for a        *)
(* reconcile call batch is the records it was given, repeat tells that the *)
(* call before it was a reconcile run of the same batch, and failed is the *)
(* set of skus named in the run's errors and result the envelope the run   *)
(* returned.                                                               *)
(***************************************************************************)
\* Requests that overlap in time: each slot is idle or holds a request that
\* has read its product and not yet run its atomic block.
Slots == {1, 2}
Idle == [op |-> "idle", pk |-> 0, product |-> NewProduct("", "", 0, 0, "", 0),
         new_quantity |-> 0, notes |-> "", rec |-> Record("", "", None, 0)]

Call(op, pk, quantity, notes, fault, status, created, updated, errors) ==
    [op |-> op, pk |-> pk, quantity |-> quantity, notes |-> notes,
     fault |-> fault, status |-> status, created |-> created,
     updated |-> updated, errors |-> errors,
     key |-> <<None, None, [kind |-> "missing", val |-> 0]>>,
     batch |-> <<>>, repeat |-> FALSE, failed |-> {},
     result |-> Envelope("none", "", {})]

\* A store fault is drawn only for a call that reaches its writes.
FaultsAt(faults, reaches_writes) == IF reaches_writes THEN faults ELSE {"none"}

Tick(prods, lgs) ==
    IF prods # products \/ lgs # logs THEN clock + 1 ELSE clock

\* The task chain before its first run.  ingest is the result of the import
\* task, envelope the result of the latest task; mail_ok and older are what
\* the report task met: whether send_mail succeeded, and how many entries of
\* the ledger were older than a day.
IdleRun ==
    [stage |-> "Idle", n |-> 0, file_path |-> None,
     ingest |-> Envelope("none", "", {}), envelope |-> Envelope("none", "", {}),
     mail_ok |-> TRUE, older |-> 0]

\* Products exist before any mutation (created through the API or the admin,
\* which write no log entry).
Init ==
    /\ \E q \in 0..MaxQty :
         products = (1 :> [NewProduct("A", "n0", 1, q, "d0", 0)
                             EXCEPT !.shopify_id = "s1"])
    /\ logs = <<>>
    /\ clock = 0
    /\ last = Call("init", 0, None, "", "none", 0, 0, 0, 0)
    /\ inflight = [slot \in Slots |-> Idle]
    /\ files = [path \in Paths |-> None]
    /\ outbox = 0
    /\ run = IdleRun

UpdateInventoryWith(faults) ==
    /\ clock < MaxClock
    /\ \E pk \in PkInputs, raw \in RawQuantities, rawNotes \in RawNotes :
       \E fault \in FaultsAt(faults, /\ pk \in DOMAIN products
                                     /\ IntOf(raw) # None
                                     /\ IntOf(raw)[1] >= 0) :
         LET out == update_inventory(products, logs, pk, raw, rawNotes, fault,
                                     clock + 1)
         IN /\ products' = out.products
            /\ logs' = out.logs
            /\ clock' = Tick(out.products, out.logs)
            /\ last' = Call("manual", IF pk \in DOMAIN products THEN pk ELSE 0,
                            out.quantity, NotesOf(rawNotes), fault,
                            out.status, 0, 0, 0)
    /\ UNCHANGED <<inflight, files, outbox, run>>

WebhookPostWith(faults) ==
    /\ clock < MaxClock
    /\ \E payload \in WebhookPayloads :
       \E fault \in FaultsAt(faults, /\ WebhookValid(payload)
                                     /\ WebhookTargets(products, payload) # {}) :
         \E target \in IF WebhookTargets(products, payload) = {} THEN {0}
                       ELSE WebhookTargets(products, payload) :
           LET out == ShopifyWebhookPost(products, logs, payload, target,
                                         fault, clock + 1)
           IN /\ products' = out.products
              /\ logs' = out.logs
              /\ clock' = Tick(out.products, out.logs)
              /\ last' = [Call("webhook",
                               IF WebhookValid(payload) THEN target ELSE 0,
                               out.quantity, WebhookNote, fault, out.status,
                               0, 0, 0)
                            EXCEPT !.key = <<payload.id, payload.sku,
                                            payload.inventory_quantity>>]
    /\ UNCHANGED <<inflight, files, outbox, run>>

ReconcileRecordWith(faults) ==
    /\ clock < MaxClock
    /\ \E rec \in Records :
       \E fault \in FaultsAt(faults, ~RecordInvalid(rec)) :
         LET out == ProcessRecord(products, logs, rec, fault, clock + 1)
             found == BySku(products, rec.sku)
             pk == IF RecordInvalid(rec) THEN 0
                   ELSE IF found = {} THEN NextPk(products)
                   ELSE CHOOSE k \in found : TRUE
         IN /\ products' = out.products
            /\ logs' = out.logs
            /\ clock' = Tick(out.products, out.logs)
            /\ last' = [Call("reconcile", pk, Some(rec.inventory_quantity),
                             "", fault, 0, out.created, out.updated,
                             out.errors)
                          EXCEPT !.batch = <<rec>>]
    /\ UNCHANGED <<inflight, files, outbox, run>>

PartialUpdateWith(faults) ==
    /\ clock < MaxClock
    /\ \E pk \in PkInputs, quantity \in Quantities :
       \E fault \in FaultsAt(faults, pk \in DOMAIN products /\ quantity >= 0) :
         LET out == partial_update(products, logs, pk, quantity, fault,
                                   clock + 1)
         IN /\ products' = out.products
            /\ logs' = out.logs
            /\ clock' = Tick(out.products, out.logs)
            /\ last' = Call("partial_update",
                            IF pk \in DOMAIN products THEN pk ELSE 0,
                            out.quantity, "", fault, out.status, 0, 0, 0)
    /\ UNCHANGED <<inflight, files, outbox, run>>

\* The handlers on a store that accepts every write its constraints allow.
UpdateInventory == UpdateInventoryWith({"none"})
WebhookPost == WebhookPostWith({"none"})
ReconcileRecord == ReconcileRecordWith({"none"})
PartialUpdate == PartialUpdateWith({"none"})

Next == UpdateInventory \/ WebhookPost \/ ReconcileRecord \/ PartialUpdate

Spec == Init /\ [][Next]_vars

(***************************************************************************)
(* The handlers on a store that may reject a write of the atomic block.    *)
(***************************************************************************)
UpdateInventoryFaulty == UpdateInventoryWith(Faults)
WebhookPostFaulty == WebhookPostWith(Faults)
ReconcileRecordFaulty == ReconcileRecordWith(Faults)

NextFault == UpdateInventoryFaulty \/ WebhookPostFaulty \/ ReconcileRecordFaulty

SpecFault == Init /\ [][NextFault]_vars

(***************************************************************************)
(* Overlapping requests.  No handler locks the row it reads (there is no   *)
(* select_for_update): update_inventory and post() read the product before *)
(* their atomic block, and the record loop reads it inside a transaction   *)
(* of the store's default isolation, so another request's commit can fall  *)
(* between a request's read and its writes.  Begin* is the read, Commit    *)
(* the atomic block.                                                       *)
(***************************************************************************)
BeginUpdateInventory ==
    /\ clock < MaxClock
    /\ \E slot \in Slots, pk \in DOMAIN products, q \in 0..MaxQty,
          rawNotes \in RawNotes :
         /\ inflight[slot] = Idle
         /\ inflight' = [inflight EXCEPT ![slot] =
              [op |-> "manual", pk |-> pk, product |-> products[pk],
               new_quantity |-> q, notes |-> NotesOf(rawNotes),
               rec |-> Idle.rec]]
    /\ UNCHANGED <<products, logs, clock, last, files, outbox, run>>

BeginWebhook ==
    /\ clock < MaxClock
    /\ \E slot \in Slots, payload \in WebhookPayloads :
         /\ inflight[slot] = Idle
         /\ WebhookValid(payload)
         /\ \E target \in WebhookTargets(products, payload) :
              inflight' = [inflight EXCEPT ![slot] =
                [op |-> "webhook", pk |-> target, product |-> products[target],
                 new_quantity |-> IntOf(payload.inventory_quantity)[1],
                 notes |-> WebhookNote, rec |-> Idle.rec]]
    /\ UNCHANGED <<products, logs, clock, last, files, outbox, run>>

BeginReconcileRecord ==
    /\ clock < MaxClock
    /\ \E slot \in Slots, rec \in Records :
         /\ inflight[slot] = Idle
         /\ ~RecordInvalid(rec)
         /\ \E pk \in BySku(products, rec.sku) :
              inflight' = [inflight EXCEPT ![slot] =
                [op |-> "reconcile", pk |-> pk, product |-> products[pk],
                 new_quantity |-> rec.inventory_quantity, notes |-> "",
                 rec |-> rec]]
    /\ UNCHANGED <<products, logs, clock, last, files, outbox, run>>

\* The writes of the request in the slot, on the store as it is now.
CommitOutcome(req) ==
    IF req.op = "reconcile"
    THEN LET out == ReconcileUpdate(products, logs, req.pk, req.product,
                                    req.rec, "none", clock + 1)
         IN [products |-> out.products, logs |-> out.logs, status |-> 0,
             updated |-> out.updated, errors |-> out.errors]
    ELSE LET log == NewLog(req.pk, req.product.inventory_quantity,
                           req.new_quantity, req.op, req.notes)
             obj == [req.product EXCEPT !.inventory_quantity = req.new_quantity]
             tx == transaction_atomic(
                     [products |-> products, logs |-> logs],
                     SaveProductThenLog(products, logs, req.pk, obj, log,
                                        "none", clock + 1))
         IN [products |-> tx.products, logs |-> tx.logs,
             status |-> IF tx.ok THEN 200 ELSE 500, updated |-> 0, errors |-> 0]

Commit ==
    /\ clock < MaxClock
    /\ \E slot \in Slots :
         /\ inflight[slot] # Idle
         /\ LET req == inflight[slot]
                out == CommitOutcome(req)
            IN /\ products' = out.products
               /\ logs' = out.logs
               /\ clock' = Tick(out.products, out.logs)
               /\ last' = Call(req.op, req.pk, Some(req.new_quantity), req.notes,
                               "none", out.status, 0, out.updated, out.errors)
         /\ inflight' = [inflight EXCEPT ![slot] = Idle]
    /\ UNCHANGED pipeVars

NextConc == BeginUpdateInventory \/ BeginWebhook \/ BeginReconcileRecord \/ Commit

SpecConc == Init /\ [][NextConc]_vars

(***************************************************************************)
(* The create_test_data command: a product TP001 with a random quantity,   *)
(* then log entries of random quantities for it, each saved with the       *)
(* change the command computed.  CreateTestLog is one iteration of the     *)
(* command's inner loop.                                                   *)
(***************************************************************************)
TestSku == "TP001"
ChangeTypes == {"manual", "webhook", "import"}

CreateTestProduct ==
    /\ clock < MaxClock
    /\ BySku(products, TestSku) = {}
    /\ \E q \in 0..MaxQty :
         products' = products @@
           (NextPk(products) :> NewProduct(TestSku, "Test Product 1", 1, q,
                                           "d0", clock + 1))
    /\ clock' = clock + 1
    /\ last' = Call("create_test_data", NextPk(products), None, "", "none", 0,
                    0, 0, 0)
    /\ UNCHANGED <<logs, inflight, files, outbox, run>>

CreateTestLog ==
    /\ clock < MaxClock
    /\ \E pk \in BySku(products, TestSku), prev_qty \in 0..MaxQty,
          new_qty \in 0..MaxQty, change_type \in ChangeTypes :
         LET log == [NewLog(pk, prev_qty, new_qty, change_type, "Test log")
                       EXCEPT !.change = Some(new_qty - prev_qty)]
         IN /\ LogInsertOK(log)
            /\ logs' = Append(logs, LogRow(log))
            /\ last' = Call("create_test_data", pk, Some(new_qty), "Test log",
                            "none", 0, 0, 0, 0)
    /\ clock' = clock + 1
    /\ UNCHANGED <<products, inflight, files, outbox, run>>

NextLedger ==
    \/ UpdateInventory \/ WebhookPost \/ ReconcileRecord
    \/ CreateTestProduct \/ CreateTestLog

SpecLedger == Init /\ [][NextLedger]_vars

(***************************************************************************)
(* validate_and_update_inventory called with a success envelope that       *)
(* carries a batch (as tests.py does): single iterations of its loop, then *)
(* a run of a batch and the same run a second time.                        *)
(***************************************************************************)
MaxBatch == 2

\* The records of the batches: a stored sku with quantity 0, with another
\* name, price and quantity, and with a negative quantity; a sku not stored
\* with quantity 0 and 1; a record with no sku.
BatchRecords ==
    {Record("A", "n1", Some(2), 0), Record("A", "n2", Some(3), 1),
     Record("A", "n1", Some(2), 0 - 1), Record("B", "n1", Some(2), 0),
     Record("B", "n1", Some(2), 1), Record("", "n1", Some(2), 1)}

Batches ==
    UNION {[1..n -> BatchRecords] : n \in 0..MaxBatch}

\* The call on the store as it is, answered into last.
ReconcileBatchOf(batch, repeat) ==
    LET import_result ==
          [Envelope("success", "Successfully read products from CSV",
                    {"status", "data", "file_path"})
             EXCEPT !.data = batch, !.file_path = Some(SourcePath)]
    IN \E out \in {validate_and_update_inventory(products, logs,
                                                 import_result, clock + 1)} :
         /\ products' = out.products
         /\ logs' = out.logs
         /\ clock' = Tick(out.products, out.logs)
         /\ last' = [Call("batch", 0, None, "", "none", 0,
                          out.envelope.created, out.envelope.updated,
                          Len(out.envelope.errors))
                       EXCEPT !.batch = batch, !.repeat = repeat,
                              !.result = out.envelope,
                              !.failed = {out.envelope.errors[i][2] :
                                            i \in 1..Len(out.envelope.errors)}]

\* A first run of a batch (early enough for the run to be repeated).
ReconcileBatch ==
    /\ clock + 1 < MaxClock
    /\ last.op # "batch"
    /\ \E batch \in Batches : ReconcileBatchOf(batch, FALSE)
    /\ UNCHANGED <<inflight, files, outbox, run>>

\* The same batch run a second time.
ReconcileBatchAgain ==
    /\ clock < MaxClock
    /\ last.op = "batch" /\ ~last.repeat
    /\ ReconcileBatchOf(last.batch, TRUE)
    /\ UNCHANGED <<inflight, files, outbox, run>>

\* One iteration of the loop, before the batch runs.
ReconcileRecordAlone ==
    /\ last.op # "batch"
    /\ ReconcileRecord

NextBatch == ReconcileBatch \/ ReconcileBatchAgain \/ ReconcileRecordAlone

SpecBatch == Init /\ [][NextBatch]_vars

(***************************************************************************)
(* Two runs of validate_and_update_inventory that overlap (the workers of  *)
(* docker_settings.py run two tasks at a time on one PostgreSQL store),    *)
(* each in the iteration of one record.  Lookup is the SELECT of           *)
(* get_or_create; Write is the rest of the record's atomic block up to its *)
(* commit.  Product.sku is unique, so the INSERT of a sku that another     *)
(* open transaction has inserted waits for that transaction to end: the    *)
(* rest of a block runs on the store the other run has committed.          *)
(***************************************************************************)
\* The records of an overlapping run: complete, with a quantity the store
\* accepts.
OverlapRecords ==
    {Record(sku, "n1", Some(2), q) : sku \in Skus, q \in 0..MaxQty}

\* get_or_create after a lookup that found pk (0: no product of the sku): a
\* product found is used as it was read; otherwise the product is inserted,
\* and when the INSERT meets a committed product of the sku (IntegrityError
\* on the unique sku) that product is fetched and was_created is False.
OverlapOutcome(prods, lgs, req, now) ==
    IF req.pk # 0
    THEN ReconcileUpdate(prods, lgs, req.pk, req.product, req.rec, "none", now)
    ELSE IF BySku(prods, req.rec.sku) = {}
    THEN ReconcileCreate(prods, lgs, req.rec, "none", now)
    ELSE LET pk == CHOOSE k \in BySku(prods, req.rec.sku) : TRUE
         IN ReconcileUpdate(prods, lgs, pk, prods[pk], req.rec, "none", now)

\* A run reaches a record and get_or_create looks its sku up.
OverlapLookup ==
    /\ clock < MaxClock
    /\ \E slot \in Slots, rec \in OverlapRecords :
         /\ inflight[slot] = Idle
         /\ LET found == BySku(products, rec.sku)
                pk == IF found = {} THEN 0 ELSE CHOOSE k \in found : TRUE
            IN inflight' = [inflight EXCEPT ![slot] =
                 [op |-> "lookup", pk |-> pk,
                  product |-> IF pk = 0 THEN Idle.product ELSE products[pk],
                  new_quantity |-> rec.inventory_quantity, notes |-> "",
                  rec |-> rec, created |-> 0, updated |-> 0, errors |-> 0]]
    /\ UNCHANGED <<products, logs, clock, last, files, outbox, run>>

\* The run's atomic block for the record ends; the slot keeps what the
\* iteration added to the run's counters.
OverlapWrite ==
    /\ clock < MaxClock
    /\ \E slot \in Slots :
         /\ inflight[slot].op = "lookup"
         /\ \E out \in {OverlapOutcome(products, logs, inflight[slot],
                                       clock + 1)} :
              /\ products' = out.products
              /\ logs' = out.logs
              /\ clock' = Tick(out.products, out.logs)
              /\ last' = [Call("reconcile", inflight[slot].pk,
                               Some(inflight[slot].new_quantity), "", "none",
                               0, out.created, out.updated, out.errors)
                            EXCEPT !.batch = <<inflight[slot].rec>>]
              /\ inflight' = [inflight EXCEPT ![slot] =
                   [inflight[slot] EXCEPT !.op = "done",
                                          !.created = out.created,
                                          !.updated = out.updated,
                                          !.errors = out.errors]]
    /\ UNCHANGED pipeVars

\* The run goes on to its next record.
OverlapNextRecord ==
    /\ \E slot \in Slots :
         /\ inflight[slot].op = "done"
         /\ inflight' = [inflight EXCEPT ![slot] = Idle]
    /\ UNCHANGED <<products, logs, clock, last, files, outbox, run>>

NextOverlap == OverlapLookup \/ OverlapWrite \/ OverlapNextRecord

SpecOverlap == Init /\ [][NextOverlap]_vars

(***************************************************************************)
(* The task chain of nightly_inventory_update: import_products_from_csv,   *)
(* validate_and_update_inventory, generate_inventory_report, each given    *)
(* the result of the one before.  The nightly chain passes no path; a      *)
(* chain started by a caller can pass one.  A task that raises ends the    *)
(* chain.                                                                  *)
(***************************************************************************)
MaxRuns == 2

GoodRow(sku, q) == Row(Some(sku), Some("n1"), Number(2), Number(q), Some("d1"))

\* The files a run can find: rows that are all kept, a row that is dropped,
\* a row with a negative price, no rows, a row whose name is the text NA and
\* a row whose price is not a number, no description column, no price
\* column, neither sku nor inventory_quantity column, a file read_csv
\* refuses.
Sources ==
    {Content(TRUE, AllColumns, <<GoodRow("A", q)>>) : q \in 0..MaxQty}
    \cup {Content(TRUE, AllColumns,
                  <<GoodRow("B", 1),
                    Row(None, Some("n1"), Number(2), Number(1), None)>>),
          Content(TRUE, AllColumns, <<>>),
          Content(TRUE, AllColumns,
                  <<Row(Some("B"), Some("NA"), Number(2), Number(1),
                        Some("d1")),
                    Row(Some("B"), Some("n1"),
                        [kind |-> "text", val |-> 0], Number(1), None)>>),
          Content(TRUE, AllColumns \ {"description"},
                  <<Row(Some("A"), Some("n1"), Number(2), Number(1), None)>>),
          Content(TRUE, AllColumns,
                  <<Row(Some("B"), Some("n1"), Number(0 - 2), Number(1),
                        Some("d1"))>>),
          Content(TRUE, AllColumns \ {"price"}, <<>>),
          Content(TRUE, AllColumns \ {"sku", "inventory_quantity"}, <<>>),
          Content(FALSE, {}, <<>>)}

InitPipeline ==
    /\ \E q \in 0..MaxQty :
         products = (1 :> [NewProduct("A", "n0", 1, q, "d0", 0)
                             EXCEPT !.shopify_id = "s1"])
    /\ logs = <<>>
    /\ clock = 0
    /\ last = Call("init", 0, None, "", "none", 0, 0, 0, 0)
    /\ inflight = [slot \in Slots |-> Idle]
    /\ files \in [Paths -> {None} \cup {Some(c) : c \in Sources}]
    /\ outbox = 0
    /\ run = IdleRun

StartPipeline ==
    /\ run.stage \in {"Idle", "Done", "Raised"}
    /\ run.n < MaxRuns
    /\ clock < MaxClock
    /\ \E file_path \in FilePathInputs :
         run' = [IdleRun EXCEPT !.stage = "Ingesting", !.n = run.n + 1,
                                !.file_path = file_path]
    /\ UNCHANGED <<products, logs, clock, last, inflight, files, outbox>>

Ingest ==
    /\ run.stage = "Ingesting"
    /\ \E can_write \in BOOLEAN :
         LET out == import_products_from_csv(files, run.file_path, can_write)
         IN /\ files' = out.files
            /\ run' = [run EXCEPT
                         !.stage = IF out.raised THEN "Raised"
                                   ELSE "Reconciling",
                         !.ingest = out.envelope, !.envelope = out.envelope]
    /\ UNCHANGED <<products, logs, clock, last, inflight, outbox>>

Reconcile ==
    /\ run.stage = "Reconciling"
    /\ \E out \in {validate_and_update_inventory(products, logs, run.envelope,
                                                  clock + 1)} :
          /\ products' = out.products
          /\ logs' = out.logs
          /\ clock' = Tick(out.products, out.logs)
          /\ run' = [run EXCEPT !.stage = "Reporting",
                                !.envelope = out.envelope]
    /\ UNCHANGED <<last, inflight, files, outbox>>

\* Report run again (the stage stays Reporting) whenever the mail fails.
ReportRetrying ==
    /\ run.stage = "Reporting"
    /\ \E mail_ok \in BOOLEAN, older \in 0..Len(logs) :
         LET out == generate_inventory_report(products, logs, outbox,
                                              run.envelope, older, mail_ok)
         IN /\ outbox' = out.outbox
            /\ run' = IF mail_ok
                      THEN [run EXCEPT !.stage = "Done",
                                       !.envelope = out.envelope,
                                       !.mail_ok = mail_ok, !.older = older]
                      ELSE [run EXCEPT !.mail_ok = mail_ok, !.older = older]
    /\ UNCHANGED <<products, logs, clock, last, inflight, files>>

Report ==
    /\ run.stage = "Reporting"
    /\ \E mail_ok \in BOOLEAN, older \in 0..Len(logs) :
         LET out == generate_inventory_report(products, logs, outbox,
                                              run.envelope, older, mail_ok)
         IN /\ outbox' = out.outbox
            /\ run' = [run EXCEPT !.stage = "Done", !.envelope = out.envelope,
                                  !.mail_ok = mail_ok, !.older = older]
    /\ UNCHANGED <<products, logs, clock, last, inflight, files>>

NextPipeline == StartPipeline \/ Ingest \/ Reconcile \/ Report

SpecPipeline == InitPipeline /\ [][NextPipeline]_vars

\* A task that is queued is run by a worker: each stage of a started chain is
\* eventually executed (weak fairness of the three tasks).  Reconcile has no
\* guard but the stage and always changes it, so it is enabled exactly when
\* the stage is Reconciling, and its weak fairness is written out with that
\* condition.
SpecPipelineFair ==
    /\ InitPipeline /\ [][NextPipeline]_vars
    /\ WF_vars(Ingest) /\ WF_vars(Report)
    /\ ([]<>(run.stage # "Reconciling") \/ []<><<Reconcile>>_vars)

(***************************************************************************)
(* The store under all of its writers: the manual and the webhook update    *)
(* answered while the task chain runs.                                      *)
(***************************************************************************)
\* The file at the source path has rows that are kept, of the stored sku or
\* of another one; no mock file is there yet.
InitStore ==
    /\ \E q \in 0..MaxQty :
         products = (1 :> [NewProduct("A", "n0", 1, q, "d0", 0)
                             EXCEPT !.shopify_id = "s1"])
    /\ logs = <<>>
    /\ clock = 0
    /\ last = Call("init", 0, None, "", "none", 0, 0, 0, 0)
    /\ inflight = [slot \in Slots |-> Idle]
    /\ \E sku \in Skus, q \in 0..MaxQty :
         files = [path \in Paths |->
                    IF path = SourcePath
                    THEN Some(Content(TRUE, AllColumns, <<GoodRow(sku, q)>>))
                    ELSE None]
    /\ outbox = 0
    /\ run = IdleRun

\* update_inventory called with a quantity that int() accepts and no notes.
StoreUpdateInventory ==
    /\ clock < MaxClock
    /\ \E pk \in PkInputs, q \in 0..MaxQty :
         LET out == update_inventory(products, logs, pk,
                                     [kind |-> "number", val |-> q], None,
                                     "none", clock + 1)
         IN /\ products' = out.products
            /\ logs' = out.logs
            /\ clock' = Tick(out.products, out.logs)
            /\ last' = Call("manual", IF pk \in DOMAIN products THEN pk ELSE 0,
                            out.quantity, NotesOf(None), "none", out.status,
                            0, 0, 0)
    /\ UNCHANGED <<inflight, files, outbox, run>>

\* post() called with a valid payload of the stored id.
StoreWebhookPost ==
    /\ clock < MaxClock
    /\ \E key \in {<<Some("s1"), None>>}, q \in 0..MaxQty :
         LET payload == [id |-> key[1], sku |-> key[2],
                         inventory_quantity |-> [kind |-> "number", val |-> q]]
         IN \E target \in IF WebhookTargets(products, payload) = {} THEN {0}
                          ELSE WebhookTargets(products, payload) :
              LET out == ShopifyWebhookPost(products, logs, payload, target,
                                            "none", clock + 1)
              IN /\ products' = out.products
                 /\ logs' = out.logs
                 /\ clock' = Tick(out.products, out.logs)
                 /\ last' = [Call("webhook", target, out.quantity,
                                  WebhookNote, "none", out.status, 0, 0, 0)
                               EXCEPT !.key = <<payload.id, payload.sku,
                                               payload.inventory_quantity>>]
    /\ UNCHANGED <<inflight, files, outbox, run>>

NextStore ==
    \/ StoreUpdateInventory \/ StoreWebhookPost
    \/ StartPipeline \/ Ingest \/ Reconcile \/ Report

SpecStore == InitStore /\ [][NextStore]_vars

(***************************************************************************)
(* Properties.                                                             *)
(***************************************************************************)
TypeOK ==
    /\ clock \in 0..MaxClock
    /\ outbox \in 0..MaxRuns
    /\ run.n \in 0..MaxRuns

\* The call of this step changed a single product's quantity path: a manual
\* or webhook update answered 200, or a reconcile record counted as updated
\* whose quantity differed from the stored one.
CompletedMutation ==
    \/ last'.op \in {"manual", "webhook"} /\ last'.status = 200
    \/ /\ last'.op = "reconcile" /\ last'.updated = 1
       /\ last'.pk \in DOMAIN products
       /\ products[last'.pk].inventory_quantity # last'.quantity[1]

\* A reconcile record created its product and the initial entry.
InitialImport ==
    /\ last'.op = "reconcile" /\ last'.created = 1 /\ last'.errors = 0
    /\ last'.pk \notin DOMAIN products

\* This step appended exactly one entry, for product pk, from prev to new.
AppendedOne(pk, prev, new) ==
    /\ Len(logs') = Len(logs) + 1
    /\ SubSeq(logs', 1, Len(logs)) = logs
    /\ logs'[Len(logs')].product = pk
    /\ logs'[Len(logs')].previous_quantity = prev
    /\ logs'[Len(logs')].new_quantity = new

\* The newest entry of product pk (the log is kept in insertion order).
NewestLog(lgs, pk) ==
    lgs[CHOOSE i \in 1..Len(lgs) :
          /\ lgs[i].product = pk
          /\ \A j \in (i + 1)..Len(lgs) : lgs[j].product # pk]

HasLog(lgs, pk) == \E i \in 1..Len(lgs) : lgs[i].product = pk

\* C1: with mutations run one at a time, every completed mutation (manual,
\* webhook, reconcile of a record whose quantity differs) appends exactly one
\* entry whose previous_quantity and new_quantity are the product's stored
\* quantity just before and just after it, and an entry is appended only by
\* such a mutation or by an initial import.
C1_OneEntryPerMutation ==
    [][/\ CompletedMutation =>
            AppendedOne(last'.pk, products[last'.pk].inventory_quantity,
                        products'[last'.pk].inventory_quantity)
       /\ logs' # logs =>
            /\ CompletedMutation \/ InitialImport
            /\ Len(logs') = Len(logs) + 1
            /\ SubSeq(logs', 1, Len(logs)) = logs]_vars

\* Two mutations in a row have each left their entry.
C1_Witness ==
    /\ Len(logs) = 2
    /\ logs[1].product = logs[2].product
    /\ logs[1].change_type = "manual"
    /\ logs[2].change_type = "import"
    /\ logs[2].previous_quantity = logs[1].new_quantity

\* C2: when mutations of one product overlap, every committed entry's
\* previous_quantity is the quantity stored just before its write took effect,
\* and the stored quantity after the write is the entry's new_quantity.
C2_ReadAndWriteDoNotInterleave ==
    [][Len(logs') > Len(logs) =>
         LET e == logs'[Len(logs')]
         IN /\ e.product \in DOMAIN products
            /\ e.previous_quantity = products[e.product].inventory_quantity
            /\ products'[e.product].inventory_quantity = e.new_quantity]_vars

\* The call of this step failed.
FailedCall ==
    \/ last'.op \in {"manual", "webhook"} /\ last'.status = 500
    \/ last'.op = "reconcile" /\ last'.errors = 1

\* C3: a mutation is all-or-nothing: after a failed manual update, webhook
\* update or reconcile record the products and the ledger are what they were
\* before the call.
C3_AllOrNothing ==
    [][FailedCall => products' = products /\ logs' = logs]_vars

\* A manual update to another quantity failed at its log write, after its
\* product write, and the stored quantity is not the requested one.
C3_Witness ==
    /\ last.op = "manual" /\ last.status = 500 /\ last.fault = "log_write"
    /\ last.pk \in DOMAIN products
    /\ last.quantity # Some(products[last.pk].inventory_quantity)

\* The quantity of a stored product changed in this step.
QuantityChanged(pk) ==
    /\ pk \in DOMAIN products
    /\ products'[pk].inventory_quantity # products[pk].inventory_quantity

\* C4 as stated: under every operation on products, the generic product
\* update included, each change of a stored quantity comes with exactly one
\* entry with the same previous and new values.
C4_EveryQuantityChangeLogged ==
    [][\A pk \in DOMAIN products :
         QuantityChanged(pk) =>
           AppendedOne(pk, products[pk].inventory_quantity,
                       products'[pk].inventory_quantity)]_vars

\* C4 amended: each change of a stored quantity made by a manual update, a
\* webhook update or a reconcile record comes with exactly one entry with the
\* same previous and new values; a generic product update that is accepted
\* with another quantity changes the stored quantity and writes no entry.
C4_MutationPathsLogged ==
    [][/\ \A pk \in DOMAIN products :
            QuantityChanged(pk) /\ last'.op # "partial_update" =>
              AppendedOne(pk, products[pk].inventory_quantity,
                          products'[pk].inventory_quantity)
       /\ ( /\ last'.op = "partial_update" /\ last'.status = 200
            /\ last'.quantity # Some(products[last'.pk].inventory_quantity) )
          => /\ QuantityChanged(last'.pk)
             /\ products'[last'.pk].inventory_quantity = last'.quantity[1]
             /\ logs' = logs]_vars

\* A generic update changed a quantity that a webhook update had set and
\* logged: the stored quantity is no longer the newest entry's new_quantity.
C4_Witness ==
    /\ last.op = "partial_update" /\ last.status = 200
    /\ HasLog(logs, last.pk)
    /\ NewestLog(logs, last.pk).change_type = "webhook"
    /\ NewestLog(logs, last.pk).new_quantity
         # products[last.pk].inventory_quantity

\* C5: a manual or webhook update whose quantity is the stored one is
\* answered with success and appends one entry of change 0.
C5_SameQuantityUpdateSucceeds ==
    [][( /\ last'.op \in {"manual", "webhook"}
         /\ last'.pk \in DOMAIN products
         /\ last'.quantity = Some(products[last'.pk].inventory_quantity) )
       => /\ last'.status = 200
          /\ AppendedOne(last'.pk, products[last'.pk].inventory_quantity,
                         products[last'.pk].inventory_quantity)
          /\ logs'[Len(logs')].change = 0]_vars

\* C6: every stored entry has change = new_quantity - previous_quantity.
C6_ChangeIsDifference ==
    \A i \in 1..Len(logs) :
      logs[i].change = logs[i].new_quantity - logs[i].previous_quantity

\* The ledger holds an entry with equal quantities: its creator supplied the
\* change and save() kept it.
C6_Witness ==
    \E i \in 1..Len(logs) :
      logs[i].previous_quantity = logs[i].new_quantity

\* C7: a manual or webhook update answered 200, of a product stored with
\* quantity p to another quantity q, stores q, and the product's newest entry
\* is p -> q with change q - p, the handler's change_type and, for manual, the
\* caller's note.
C7_UpdateStoresAndLogs ==
    [][( /\ last'.op \in {"manual", "webhook"} /\ last'.status = 200
         /\ last'.quantity # Some(products[last'.pk].inventory_quantity) )
       => LET p == products[last'.pk].inventory_quantity
              q == last'.quantity[1]
              e == NewestLog(logs', last'.pk)
          IN /\ products'[last'.pk].inventory_quantity = q
             /\ HasLog(logs', last'.pk)
             /\ e.previous_quantity = p /\ e.new_quantity = q
             /\ e.change = q - p
             /\ e.change_type = last'.op
             /\ last'.op = "manual" => e.notes = last'.notes]_vars

\* A manual update with a note followed a webhook update of the same product.
C7_Witness ==
    /\ last.op = "manual" /\ last.status = 200 /\ last.notes = "recount"
    /\ Len(logs) = 2
    /\ logs[1].change_type = "webhook" /\ logs[1].product = last.pk
    /\ logs[2].product = last.pk

\* C8: a manual update whose quantity is missing, not a number or negative is
\* answered 400 and leaves the products (their last_inventory_update too) and
\* the ledger as they were.
C8_InvalidManualRejected ==
    [][( /\ last'.op = "manual"
         /\ \/ last'.quantity = None
            \/ last'.quantity[1] < 0 )
       => /\ last'.status = 400
          /\ products' = products
          /\ logs' = logs]_vars

\* A negative manual update of a stored product that already has a ledger.
C8_Witness ==
    /\ last.op = "manual" /\ last.quantity = Some(0 - 1)
    /\ last.pk \in DOMAIN products
    /\ HasLog(logs, last.pk)

\* C9: a webhook update with quantity -1 for a stored product is answered
\* with a validation error (400).
C9_NegativeWebhookIsValidationError ==
    ( /\ last.op = "webhook" /\ last.pk \in DOMAIN products
      /\ last.quantity = Some(0 - 1) )
    => last.status = 400

\* C10: a webhook update with a negative quantity appends no entry and
\* changes no product, whatever it answers.
C10_NegativeWebhookChangesNothing ==
    [][( /\ last'.op = "webhook"
         /\ last'.quantity # None
         /\ last'.quantity[1] < 0 )
       => products' = products /\ logs' = logs]_vars

\* A negative webhook update found its product, which has a ledger.
C10_Witness ==
    /\ last.op = "webhook" /\ last.quantity = Some(0 - 1)
    /\ last.pk \in DOMAIN products
    /\ HasLog(logs, last.pk)

\* C11: a manual update of a primary key that no product has, with a valid
\* quantity, is answered NotFound (404) and changes no product and no entry.
C11_UnknownPkIsNotFound ==
    [][( /\ last'.op = "manual" /\ last'.pk = 0
         /\ last'.quantity # None /\ last'.quantity[1] >= 0 )
       => /\ last'.status = 404
          /\ products' = products /\ logs' = logs]_vars

\* The payload of the webhook call of this step.
PayloadId == last'.key[1]
PayloadSku == last'.key[2]
PayloadQuantity == last'.key[3]

\* The payload's sku is that of a stored product, and its quantity is a
\* non-negative number other than that product's stored quantity.
SkuMatchesWithNewQuantity ==
    /\ PayloadSku # None /\ BySku(products, PayloadSku[1]) # {}
    /\ PayloadQuantity.kind = "number" /\ PayloadQuantity.val >= 0
    /\ \A pk \in BySku(products, PayloadSku[1]) :
         products[pk].inventory_quantity # PayloadQuantity.val

\* C12: a webhook payload with no external id and a sku of a stored product,
\* and one whose external id matches nothing while its sku matches a stored
\* product, is accepted (200) and sets the quantity of the product with that
\* sku.
C12_WebhookFallsBackToSku ==
    [][( /\ last'.op = "webhook"
         /\ SkuMatchesWithNewQuantity
         /\ \/ PayloadId = None
            \/ PayloadId # None /\ ByShopifyId(products, PayloadId[1]) = {} )
       => /\ last'.status = 200
          /\ \A pk \in BySku(products, PayloadSku[1]) :
               products'[pk].inventory_quantity = PayloadQuantity.val]_vars

\* C13: a webhook payload that passes validation and whose external id and
\* sku both match no stored product is answered 404, and no product and no
\* entry changes.
C13_WebhookUnknownProductIsNotFound ==
    [][( /\ last'.op = "webhook"
         /\ PayloadId # None /\ PayloadQuantity.kind = "number"
         /\ ByShopifyId(products, PayloadId[1]) = {}
         /\ PayloadSku # None => BySku(products, PayloadSku[1]) = {} )
       => /\ last'.status = 404
          /\ products' = products /\ logs' = logs]_vars

\* A payload with an id and a sku that both match nothing was answered 404,
\* on a store whose ledger already has an entry.
C13_Witness ==
    /\ last.op = "webhook" /\ last.status = 404
    /\ last.key[1] = Some("zz") /\ last.key[2] = Some("B")
    /\ BySku(products, "B") = {}
    /\ Len(logs) >= 1

\* C14: a webhook payload with no quantity, or with neither an external id
\* nor a sku, is answered 400 whatever the store holds, and no product and no
\* entry changes.
C14_WebhookInvalidPayloadRejected ==
    [][( /\ last'.op = "webhook"
         /\ \/ PayloadQuantity.kind = "missing"
            \/ PayloadId = None /\ PayloadSku = None )
       => /\ last'.status = 400
          /\ products' = products /\ logs' = logs]_vars

\* A payload naming a stored product by its id, without a quantity, was
\* answered 400.
C14_Witness ==
    /\ last.op = "webhook" /\ last.status = 400
    /\ last.key[1] # None /\ ByShopifyId(products, last.key[1][1]) # {}
    /\ last.key[3].kind = "missing"

\* A record with sku, name and price and a non-negative quantity.
ValidRecord(rec) == ~RecordInvalid(rec) /\ rec.inventory_quantity >= 0

\* The stored product has the record's quantity, name, price and description.
StoredAs(product, rec) ==
    /\ product.inventory_quantity = rec.inventory_quantity
    /\ product.name = rec.name
    /\ product.price = rec.price[1]
    /\ product.description = rec.description

\* The records of the batch (by position) of the given sku that are valid.
ValidAt(batch, sku) ==
    {i \in 1..Len(batch) : ValidRecord(batch[i]) /\ batch[i].sku = sku}

Max(S) == CHOOSE m \in S : \A k \in S : k <= m

\* C15: after a reconcile run over n records of which k were rejected or
\* failed (errors has k entries), created + updated = n - k, and every record
\* whose sku no error names is in the store as the last record of that sku.
C15_FailureDoesNotAbortBatch ==
    [][last'.op = "batch" =>
         /\ last'.created + last'.updated = Len(last'.batch) - last'.errors
         /\ \A i \in 1..Len(last'.batch) :
              last'.batch[i].sku \notin last'.failed =>
                \E pk \in BySku(products', last'.batch[i].sku) :
                  StoredAs(products'[pk],
                           last'.batch[Max(ValidAt(last'.batch,
                                                   last'.batch[i].sku))])]_vars

\* C16: a second reconcile run of the same batch, all of whose quantities are
\* non-negative, reports created = 0, appends no entry and leaves every
\* product's quantity as it was.
C16_ReconcileIsIdempotent ==
    [][( /\ last'.op = "batch" /\ last'.repeat
         /\ \A i \in 1..Len(last'.batch) :
              last'.batch[i].inventory_quantity >= 0 )
       => /\ last'.created = 0
          /\ logs' = logs
          /\ \A pk \in DOMAIN products :
               /\ pk \in DOMAIN products'
               /\ products'[pk].inventory_quantity
                    = products[pk].inventory_quantity]_vars

\* C17: a reconcile record that is valid, whose sku is not stored, is
\* created with the record's values whatever its non-negative quantity q,
\* with exactly one new entry 0 -> q of type import, and counts in created
\* and not in updated.
C17_NewSkuIsCreatedAndLogged ==
    [][( /\ last'.op = "reconcile"
         /\ ValidRecord(last'.batch[1])
         /\ BySku(products, last'.batch[1].sku) = {} )
       => /\ last'.created = 1 /\ last'.updated = 0
          /\ \E pk \in DOMAIN products' \ DOMAIN products :
               /\ DOMAIN products' = DOMAIN products \cup {pk}
               /\ products'[pk].sku = last'.batch[1].sku
               /\ StoredAs(products'[pk], last'.batch[1])
               /\ AppendedOne(pk, 0, last'.batch[1].inventory_quantity)
               /\ logs'[Len(logs')].change_type = "import"]_vars

\* The valid records of the batch whose sku was stored before the run.
ValidOfStored(batch) ==
    {i \in 1..Len(batch) :
       ValidRecord(batch[i]) /\ BySku(products, batch[i].sku) # {}}

\* C18: a valid record of a stored sku leaves the product with the record's
\* quantity, name, price and description and counts once in updated; after a
\* run of a batch the product of every sku that was stored has the values of
\* the last valid record of its sku, and updated counts each such record
\* (and nothing else when the batch has no valid record of another sku).
C18_StoredSkuTakesRecordValues ==
    [][/\ ( /\ last'.op = "reconcile"
            /\ ValidRecord(last'.batch[1])
            /\ BySku(products, last'.batch[1].sku) # {} )
          => /\ last'.updated = 1 /\ last'.created = 0
             /\ \A pk \in BySku(products, last'.batch[1].sku) :
                  StoredAs(products'[pk], last'.batch[1])
       /\ last'.op = "batch"
          => /\ \A pk \in DOMAIN products :
                  ValidAt(last'.batch, products[pk].sku) # {} =>
                    StoredAs(products'[pk],
                             last'.batch[Max(ValidAt(last'.batch,
                                                     products[pk].sku))])
             /\ last'.updated >= Cardinality(ValidOfStored(last'.batch))
             /\ ( \A i \in 1..Len(last'.batch) :
                    ValidRecord(last'.batch[i]) =>
                      i \in ValidOfStored(last'.batch) )
                => last'.updated = Cardinality(ValidOfStored(last'.batch))]_vars

\* A batch of two records of the stored sku, with different names and
\* quantities, was run: both count in updated and the product has the second
\* record's values.
C18_Witness ==
    /\ last.op = "batch" /\ Len(last.batch) = 2 /\ last.updated = 2
    /\ last.batch[1].sku = "A" /\ last.batch[2].sku = "A"
    /\ last.batch[1].name # last.batch[2].name
    /\ last.batch[1].inventory_quantity # last.batch[2].inventory_quantity
    /\ StoredAs(products[1], last.batch[2])

\* C19: a stage given an envelope that is not a success does none of its
\* work and returns the envelope: the reconcile stage writes no product and
\* no entry, the report stage sends nothing; the ingest stage never writes
\* the store; so a run whose ingest failed ends with the ingest's envelope.
C19_FailureEnvelopePassesThrough ==
    [][/\ run.stage = "Ingesting"
          => products' = products /\ logs' = logs /\ outbox' = outbox
       /\ ( /\ run.stage \in {"Reconciling", "Reporting"}
            /\ run.envelope.status # "success" )
          => /\ products' = products /\ logs' = logs
             /\ outbox' = outbox /\ files' = files
             /\ run'.envelope = run.envelope
       /\ ( /\ run.stage = "Reporting" /\ run'.stage = "Done"
            /\ run.ingest.status # "success" )
          => /\ run'.envelope = run.ingest
             /\ run'.envelope.message = run.ingest.message]_vars

\* A second run ended with the schema error of its ingest, after a first run
\* that had changed the store and sent its report.
C19_Witness ==
    /\ run.stage = "Done" /\ run.n = 2
    /\ run.ingest.status = "error"
    /\ run.envelope.message = "Missing required columns"
    /\ outbox = 1 /\ clock = 1

\* C20: when the path given does not exist (or none is given) and no mock
\* file exists, the ingest returns an error envelope with imported = 0 and
\* creates no file.
C20_MissingSourceIsAnError ==
    [][( /\ run.stage = "Ingesting"
         /\ run.file_path = None \/ files[run.file_path[1]] = None
         /\ files[MockPath] = None )
       => /\ run'.stage = "Reconciling"
          /\ run'.envelope.status = "error"
          /\ run'.envelope.imported = 0
          /\ "data" \notin run'.envelope.keys
          /\ files' = files]_vars

\* The file the import task of this run reads: the path given when it
\* exists, the mock path otherwise.
IngestPath ==
    IF run.file_path = None \/ files[run.file_path[1]] = None
    THEN MockPath ELSE run.file_path[1]

\* The import task is about to read a file pandas can parse.
IngestReads ==
    /\ run.stage = "Ingesting"
    /\ files[IngestPath] # None
    /\ files[IngestPath][1].readable

\* C21: a source with the four required columns and no description column is
\* ingested: the result is a success envelope carrying its valid rows.
C21_DescriptionColumnIsOptional ==
    [][( /\ IngestReads
         /\ RequiredColumns \subseteq files[IngestPath][1].columns
         /\ "description" \notin files[IngestPath][1].columns )
       => /\ run'.envelope.status = "success"
          /\ run'.envelope.data = ValidData(files[IngestPath][1].rows)]_vars

\* C22: a source that lacks required columns gives an error envelope naming
\* exactly the columns that are missing and carrying no batch, and the
\* reconcile stage given that envelope writes nothing.
C22_MissingColumnsAreListed ==
    [][/\ ( /\ IngestReads
            /\ ~(RequiredColumns \subseteq files[IngestPath][1].columns) )
          => /\ run'.envelope.status = "error"
             /\ run'.envelope.message = "Missing required columns"
             /\ run'.envelope.missing
                  = RequiredColumns \ files[IngestPath][1].columns
             /\ "data" \notin run'.envelope.keys
             /\ run'.envelope.data = <<>>
       /\ ( /\ run.stage = "Reconciling"
            /\ run.envelope.message = "Missing required columns" )
          => products' = products /\ logs' = logs]_vars

\* The reconcile stage has passed on the envelope of a source that had
\* neither a sku nor an inventory_quantity column.
C22_Witness ==
    /\ run.stage = "Reporting"
    /\ run.envelope.status = "error"
    /\ run.envelope.missing = {"sku", "inventory_quantity"}

\* C23: a reconcile run given a success envelope returns an envelope of
\* status success with the created, updated and errors of the run, also when
\* every record of the batch was rejected or failed.
C23_ReconcilerAlwaysReturnsSummary ==
    [][last'.op = "batch" =>
         /\ last'.result.status = "success"
         /\ {"created", "updated", "errors"} \subseteq last'.result.keys
         /\ last'.result.created = last'.created
         /\ last'.result.updated = last'.updated
         /\ Len(last'.result.errors) = last'.errors]_vars

\* A batch of a rejected record and a record that failed was run: two errors,
\* nothing updated, nothing stored, and the envelope is a success.
C23_Witness ==
    /\ last.op = "batch" /\ Len(last.batch) = 2
    /\ RecordInvalid(last.batch[1]) /\ ~RecordInvalid(last.batch[2])
    /\ last.errors = 2 /\ last.updated = 0
    /\ logs = <<>>
    /\ last.result.status = "success"

\* C24: the report stage never changes a product or an entry, and when its
\* dispatch fails it returns an error envelope.
C24_DispatchFailureKeepsStore ==
    [][/\ run.stage = "Reporting"
          => products' = products /\ logs' = logs
       /\ ( /\ run.stage = "Reporting" /\ run.envelope.status = "success"
            /\ ~run'.mail_ok )
          => /\ run'.envelope.status = "error"
             /\ outbox' = outbox]_vars

\* A run whose reconcile stage committed entries ended with the dispatch
\* failing.
C24_Witness ==
    /\ run.stage = "Done" /\ ~run.mail_ok
    /\ run.ingest.status = "success"
    /\ run.envelope.status = "error"
    /\ Len(logs) >= 1 /\ outbox = 0

\* C25: the result a run of the chain ends with has a status, a message and
\* counts (imported, or created and updated, or the report's data).
C25_FinalResultHasStatusMessageCounts ==
    run.stage = "Done" =>
      /\ {"status", "message"} \subseteq run.envelope.keys
      /\ run.envelope.keys
           \cap {"imported", "created", "updated", "report_data"} # {}

\* C26: given a success envelope (and a dispatch that succeeds), the report
\* carries the number of products, of products with quantity below 10, of
\* products with quantity 0 and of entries of the last 24 hours, all of the
\* store as it is, with created, updated and errors as they came in, and one
\* notification is sent.
C26_ReportCountsTheStore ==
    [][( /\ run.stage = "Reporting" /\ run.envelope.status = "success"
         /\ run'.mail_ok )
       => /\ run'.envelope.status = "success"
          /\ run'.envelope.report # None
          /\ LET r == run'.envelope.report[1]
             IN /\ r.total_products = Cardinality(DOMAIN products)
                /\ r.low_stock_products =
                     Cardinality({pk \in DOMAIN products :
                                    products[pk].inventory_quantity < 10})
                /\ r.out_of_stock_products =
                     Cardinality({pk \in DOMAIN products :
                                    products[pk].inventory_quantity = 0})
                /\ r.recent_updates = Len(logs) - run'.older
                /\ r.created = run.envelope.created
                /\ r.updated = run.envelope.updated
                /\ r.errors = run.envelope.errors
          /\ outbox' = outbox + 1]_vars

\* A report was sent for a store of four products, one of them below 10,
\* after a run that created three; one of the three entries was older than
\* a day.
C26_Witness ==
    /\ run.stage = "Done" /\ run.envelope.report # None
    /\ run.envelope.report[1].total_products = 4
    /\ run.envelope.report[1].low_stock_products = 1
    /\ run.envelope.report[1].created = 3
    /\ run.envelope.report[1].recent_updates = 2

\* C27: every stored product's quantity and every entry's previous_quantity
\* and new_quantity are non-negative, whatever integers the manual, webhook
\* and reconcile inputs carry.
C27_QuantitiesNeverNegative ==
    /\ \A pk \in DOMAIN products : products[pk].inventory_quantity >= 0
    /\ \A i \in 1..Len(logs) :
         logs[i].previous_quantity >= 0 /\ logs[i].new_quantity >= 0

\* A reconcile record with a negative quantity met a stored product that has
\* a ledger.
C27_Witness ==
    /\ last.op = "reconcile" /\ last.quantity = Some(0 - 1)
    /\ last.pk \in DOMAIN products
    /\ HasLog(logs, last.pk)

\* C28: every stored product's price is non-negative, whatever the rows of
\* the sources ingested and reconciled.
C28_PricesNeverNegative ==
    \A pk \in DOMAIN products : products[pk].price >= 0

\* C29: a step changes a stored product's last_inventory_update exactly when
\* it changes the product's stored quantity.
C29_TimestampFollowsQuantity ==
    [][\A pk \in DOMAIN products :
         (products'[pk].last_inventory_update
            # products[pk].last_inventory_update)
         <=> QuantityChanged(pk)]_vars

\* After a manual update had changed the quantity (and the timestamp), a
\* reconcile record of the same quantity overwrote the name: the timestamp is
\* still that of the manual update.
C29_Witness ==
    /\ last.op = "reconcile" /\ last.updated = 1
    /\ last.pk \in DOMAIN products
    /\ Len(logs) = 1 /\ logs[1].change_type = "manual"
    /\ products[last.pk].name = "n1"
    /\ products[last.pk].last_inventory_update = 1
    /\ clock = 2

\* C30: a reconcile record of a stored sku whose quantity is the stored one
\* appends no entry and leaves the quantity, overwrites name, price and
\* description, and counts in updated.
C30_UnchangedQuantityStillOverwrites ==
    [][( /\ last'.op = "reconcile"
         /\ ~RecordInvalid(last'.batch[1])
         /\ last'.pk \in DOMAIN products
         /\ products[last'.pk].inventory_quantity
              = last'.batch[1].inventory_quantity )
       => /\ logs' = logs
          /\ products'[last'.pk].inventory_quantity
               = products[last'.pk].inventory_quantity
          /\ StoredAs(products'[last'.pk], last'.batch[1])
          /\ last'.updated = 1 /\ last'.created = 0 /\ last'.errors = 0]_vars

\* A record of the stored quantity overwrote the name of a product whose
\* ledger is empty.
C30_Witness ==
    /\ last.op = "reconcile" /\ last.updated = 1
    /\ last.pk \in DOMAIN products
    /\ logs = <<>>
    /\ products[last.pk].name = "n1"
    /\ products[last.pk].last_inventory_update = 0

\* C31: a reconcile record is applied as one atomic unit, whichever write of
\* it fails: a record that ends as an error leaves the products and the
\* ledger as they were; a product that a record created comes with its
\* initial entry 0 -> quantity; an entry that a record appended comes with
\* the product holding the entry's new quantity and the record's name, price
\* and description.
C31_RecordIsAtomic ==
    [][last'.op = "reconcile" =>
         /\ last'.errors = 1 => products' = products /\ logs' = logs
         /\ \A pk \in DOMAIN products' \ DOMAIN products :
              /\ AppendedOne(pk, 0, products'[pk].inventory_quantity)
              /\ StoredAs(products'[pk], last'.batch[1])
         /\ logs' # logs =>
              /\ Len(logs') = Len(logs) + 1
              /\ SubSeq(logs', 1, Len(logs)) = logs
              /\ logs'[Len(logs')].product \in DOMAIN products'
              /\ logs'[Len(logs')].new_quantity
                   = last'.batch[1].inventory_quantity
              /\ StoredAs(products'[logs'[Len(logs')].product],
                          last'.batch[1])
         /\ \A pk \in DOMAIN products :
              products'[pk] # products[pk] =>
                /\ last'.errors = 0
                /\ StoredAs(products'[pk], last'.batch[1])
                /\ products'[pk].inventory_quantity
                     # products[pk].inventory_quantity
                   => AppendedOne(pk, products[pk].inventory_quantity,
                                  products'[pk].inventory_quantity)]_vars

\* A record of a sku not stored failed at its ledger write, after the product
\* was inserted: no product of that sku is stored and the ledger is empty.
C31_Witness ==
    /\ last.op = "reconcile" /\ last.errors = 1 /\ last.fault = "log_write"
    /\ last.quantity = Some(1)
    /\ last.batch[1].sku = "B" /\ BySku(products, "B") = {}
    /\ logs = <<>>

\* C32: the counters of a reconcile run account for each record exactly once:
\* created + updated + the number of errors is the number of records of the
\* batch, and created is the number of products stored after the run that
\* were not stored before it.
C32_CountersAccountEachRecordOnce ==
    [][last'.op = "batch" =>
         /\ last'.created + last'.updated + last'.errors = Len(last'.batch)
         /\ last'.created
              = Cardinality(DOMAIN products' \ DOMAIN products)]_vars

\* The two runs have each ended the iteration of a record of the same sku,
\* and the lookup of each found no product of it.
BothCreatedSku(sku) ==
    \A slot \in Slots :
      /\ inflight[slot].op = "done"
      /\ inflight[slot].pk = 0
      /\ inflight[slot].rec.sku = sku

\* C33: when two overlapping reconcile runs have both processed a record of
\* the same sku that was not stored, the store holds exactly one product of
\* that sku and exactly one entry with previous_quantity 0 for it, and the
\* two runs together count created once.
C33_OverlappingRunsCreateOnce ==
    \A sku \in Skus :
      BothCreatedSku(sku) =>
        /\ Cardinality(BySku(products, sku)) = 1
        /\ \A pk \in BySku(products, sku) :
             Cardinality({i \in 1..Len(logs) :
                            /\ logs[i].product = pk
                            /\ logs[i].previous_quantity = 0}) = 1
        /\ inflight[1].created + inflight[2].created = 1

\* No two stored products have the same sku.
NoSharedSku(prods) ==
    \A pk1 \in DOMAIN prods, pk2 \in DOMAIN prods :
      prods[pk1].sku = prods[pk2].sku => pk1 = pk2

\* The entries of product pk that an initial import wrote.
InitialEntries(lgs, pk) ==
    {i \in 1..Len(lgs) : lgs[i].product = pk /\ lgs[i].notes = "Initial import"}

C35_LedgerIsAppendOnly ==
    [][/\ Len(logs') >= Len(logs)
       /\ \A i \in 1..Len(logs) : logs'[i] = logs[i]]_vars

\* A manual update left an entry, then a run of the task chain reconciled the
\* same product to another quantity and reported: both entries are there.
C35_Witness ==
    /\ run.stage = "Done" /\ run.envelope.status = "success"
    /\ Len(logs) = 2
    /\ logs[1].change_type = "manual" /\ logs[2].change_type = "import"
    /\ logs[1].product = logs[2].product

\* The records of the batch have pairwise distinct skus.
DistinctSkus(batch) ==
    \A i \in 1..Len(batch), j \in 1..Len(batch) :
      batch[i].sku = batch[j].sku => i = j

\* The orders of a batch.
Reorderings(batch) ==
    {[i \in 1..Len(batch) |-> batch[p[i]]] :
       p \in {q \in [1..Len(batch) -> 1..Len(batch)] :
                \A i \in 1..Len(batch), j \in 1..Len(batch) :
                  q[i] = q[j] => i = j}}

\* The products without their ids and timestamps.
ProductsView(prods) ==
    {[sku |-> prods[pk].sku, shopify_id |-> prods[pk].shopify_id,
      name |-> prods[pk].name, price |-> prods[pk].price,
      inventory_quantity |-> prods[pk].inventory_quantity,
      description |-> prods[pk].description] : pk \in DOMAIN prods}

\* The set of entries, each with its product's sku in place of the id.
LedgerView(prods, lgs) ==
    {[lgs[i] EXCEPT !.product = prods[lgs[i].product].sku] :
       i \in 1..Len(lgs)}

\* C36: for a batch whose records have pairwise distinct skus, a reconcile
\* run over the records in any other order, on the same store, yields the
\* same products and the same set of entries (ids and timestamps aside) and
\* the same created and updated counts.
C36_OrderOfDistinctSkusIsFree ==
    [][( last'.op = "batch" /\ DistinctSkus(last'.batch) )
       => \A other \in Reorderings(last'.batch) :
            \E out \in {validate_and_update_inventory(
                          products, logs,
                          [Envelope("success", "", {"status", "data"})
                             EXCEPT !.data = other],
                          clock + 1)} :
              /\ ProductsView(out.products) = ProductsView(products')
              /\ LedgerView(out.products, out.logs)
                   = LedgerView(products', logs')
              /\ out.envelope.created = last'.created
              /\ out.envelope.updated = last'.updated]_vars

\* A batch of a record of a sku not stored and a record of the stored sku
\* with another quantity has run: one product was created, one updated, and
\* each left its entry.
C36_Witness ==
    /\ last.op = "batch" /\ ~last.repeat /\ Len(last.batch) = 2
    /\ last.batch[1].sku = "B" /\ last.batch[2].sku = "A"
    /\ last.created = 1 /\ last.updated = 1 /\ last.errors = 0
    /\ Len(logs) = 2
    /\ logs[1].previous_quantity = 0 /\ logs[1].product = 2
    /\ logs[2].product = 1

\* A run of the chain is under way / has ended (Done, or Raised when a task
\* raised and the chain stopped).
RunUnderWay == run.stage \in {"Ingesting", "Reconciling", "Reporting"}
RunEnded == run.stage \in {"Done", "Raised"}

\* C37: a run of the chain goes from Idle through Ingesting, Reconciling and
\* Reporting in that order and ends in Done, or ends where a task raised;
\* the files are written only by the ingest stage, the store only by the
\* reconcile stage, given the result the ingest returned, and the mail sent
\* only by the report stage; a reconcile run leaves for each record of its
\* batch exactly one update, one new product or one error; and every run that
\* has started eventually ends.
C37_StagesInOrderAndTerminate ==
    /\ [][/\ run'.stage # run.stage =>
               \/ run.stage \in {"Idle", "Done", "Raised"}
                  /\ run'.stage = "Ingesting"
               \/ run.stage = "Ingesting"
                  /\ run'.stage \in {"Reconciling", "Raised"}
               \/ run.stage = "Reconciling" /\ run'.stage = "Reporting"
               \/ run.stage = "Reporting" /\ run'.stage = "Done"
          /\ files' # files => run.stage = "Ingesting"
          /\ (products' # products \/ logs' # logs) =>
               run.stage = "Reconciling" /\ run.envelope = run.ingest
          /\ outbox' # outbox => run.stage = "Reporting"
          /\ ( /\ run.stage = "Reconciling" /\ run'.stage = "Reporting"
               /\ run.envelope.status = "success" )
             => run'.envelope.updated + Len(run'.envelope.errors)
                  + Cardinality(DOMAIN products' \ DOMAIN products)
                = Len(run.envelope.data)]_vars
    /\ (RunUnderWay ~> RunEnded)

\* A second run of the chain has gone through its three stages and ended in
\* Done, after a reconcile stage that wrote the store.
C37_Witness ==
    /\ run.stage = "Done" /\ run.n = 2
    /\ run.envelope.status = "success"
    /\ run.ingest.data # <<>>
    /\ Len(logs) >= 1

\* The row of the file has a sku, a name, a numeric price and a numeric
\* quantity.
HasAllFour(row) ==
    /\ row.sku # None /\ row.name # None
    /\ row.price.kind = "number" /\ row.inventory_quantity.kind = "number"

\* C38: the batch of a success envelope of the ingest holds exactly the rows
\* of the file that have a sku, a name, a numeric price and a numeric
\* quantity: every record is such a row, every such row is a record, and the
\* rows with an empty required cell or a price or quantity that is not a
\* number are not in it.
C38_IngestKeepsCompleteRows ==
    [][( IngestReads /\ run'.envelope.status = "success" )
       => LET rows == files[IngestPath][1].rows
              data == run'.envelope.data
              complete == {i \in 1..Len(rows) : HasAllFour(rows[i])}
          IN /\ Len(data) = Cardinality(complete)
             /\ \A j \in 1..Len(data) :
                  \E i \in complete : data[j] = RowRecord(rows[i])
             /\ \A i \in complete :
                  \E j \in 1..Len(data) : data[j] = RowRecord(rows[i])]_vars

====
